---- MODULE Spec2Model ----
(***************************************************************************)
(* State-machine model of static/js/app.js, the browser client of the      *)
(* clinical-trials search application.  Every async handler is split at    *)
(* its await: the part that runs on the user's click (up to the fetch) and *)
(* the part that runs when the response arrives (after the await).  The    *)
(* requests in flight between the two parts are explicit state.            *)
(*                                                                         *)
(* The page has three groups of handlers that share no variable: the agent *)
(* analyses with the protocol report; search, pagination, filters,         *)
(* advanced mode and sidebar chat; the per-study chat modal.  Each is      *)
(* explored by a specification of its own:                                 *)
(*   SpecAnalysis  the six agents and the protocol report,                 *)
(*   SpecSearch    search, pagination and clearFilters,                    *)
(*   SpecMode      search and the advanced-mode toggle,                    *)
(*   SpecSidebar   search, clearFilters and the sidebar chat,              *)
(*   SpecModal     search and the per-study chat modal,                    *)
(*   SpecChat      search and both chats.                                  *)
(* Spec is the whole page.                                                 *)
(***************************************************************************)
EXTENDS Integers, Sequences, FiniteSets, Bags, TLC

\* ------------------------------------------------------------------ bounds
\* Requests that may be outstanding together: of the search and the two chats
\* taken together, of the protocol report, and of each agent.
MaxInflight == 2
\* Agent features the user exercises in one session (each agent touches only
\* its own button and its own result panel).
MaxAgentsUsed == 2
\* Largest total_pages the server reports.
MaxTotalPages == 3
\* How far a click on a stale Previous / Next button may take the page
\* number outside 1..MaxTotalPages before the model stops following it.
PageSlack == 1
\* Entries the two chat transcripts may hold together before the model stops
\* sending.
MaxMsgs == 4
\* Largest value of the millisecond clock read by Date.now().
MaxClock == 1

\* ------------------------------------------------------- values of the model
\* Error texts the server may put in a response's `error` field.
ServerErrors == {"E1"}
\* Messages of the exception thrown by fetch() or response.json().
ExceptionMessages == {"Failed to fetch"}
\* DOM ids of the six agent features: <id>Btn is the trigger, <id>Result the panel.
Agents == {"agenticSearch", "analysis", "compare", "amendment", "pattern", "soa"}

\* What arrives for a request to an agent endpoint or to the protocol report:
\* a success payload, an {error} payload, a payload with neither `success`
\* nor `error`, or an exception (transport failure, unparsable body).
AgentResponses ==
    {[kind |-> "ok", text |-> ""], [kind |-> "empty", text |-> ""]}
    \cup {[kind |-> "error", text |-> e] : e \in ServerErrors}
    \cup {[kind |-> "throw", text |-> m] : m \in ExceptionMessages}

VARIABLES
    \* module-scoped globals, app.js lines 1-6
    currentChatStudy, currentPage, totalPages, currentFilters, totalResults,
    isAdvancedMode,
    \* search form and search DOM
    advancedModeCheckbox, totalCount, resultsContainer, pagination,
    advancedWarning, modeBadge,
    \* sidebar chat DOM
    sidebarChatInputDisabled, sidebarSendBtnDisabled, sidebarChatMessages,
    \* per-study chat modal DOM
    chatStudyTitle, chatModal, chatMessages,
    \* protocol report DOM
    protocolLoading, protocolReportContainer, protocolReportContent,
    \* agent DOM: button.disabled and result panel of each agent
    btnDisabled, agentResult,
    \* requests in flight, per kind
    searchInflight, chatInflight, sidebarInflight, protocolInflight, agentInflight,
    \* environment: Date.now() and the text of the alert() dialog that is open
    clock, alertMsg

globalVars == <<currentChatStudy, currentPage, totalPages, currentFilters,
                totalResults, isAdvancedMode>>
searchDom == <<advancedModeCheckbox, totalCount, resultsContainer,
               pagination, advancedWarning, modeBadge>>
sidebarDom == <<sidebarChatInputDisabled, sidebarSendBtnDisabled, sidebarChatMessages>>
modalDom == <<chatStudyTitle, chatModal, chatMessages>>
protocolDom == <<protocolLoading, protocolReportContainer, protocolReportContent>>
agentDom == <<btnDisabled, agentResult>>
inflightVars == <<searchInflight, chatInflight, sidebarInflight, protocolInflight,
                  agentInflight>>
vars == <<globalVars, searchDom, sidebarDom, modalDom, protocolDom, agentDom,
          inflightVars, clock, alertMsg>>

\* Everything the analysis handlers leave alone.
searchSide == <<globalVars, searchDom, sidebarDom, modalDom, searchInflight,
                chatInflight, sidebarInflight, clock>>

NoAlert == <<>>
\* null, for currentChatStudy (a string) and for currentFilters (a record).
Null == "null"
NullFilters == [isNull |-> TRUE, page |-> 0]

\* alert(message) opens a modal dialog: it is the last statement of every
\* handler path that raises one, and no other handler runs until the user
\* dismisses it.
alert(message) == alertMsg' = message
NoDialog == alertMsg = NoAlert
\* Outstanding requests of the search and the two chats.
PageInflight ==
    BagCardinality(searchInflight) + BagCardinality(chatInflight)
        + BagCardinality(sidebarInflight)
dismissAlert ==
    /\ alertMsg # NoAlert
    /\ alertMsg' = NoAlert
    /\ UNCHANGED <<globalVars, searchDom, sidebarDom, modalDom, protocolDom, agentDom,
                   inflightVars, clock>>

\* ------------------------------------------------------------------ agents
Panel(kind, text) == [kind |-> kind, text |-> text]

\* showAgentLoading(resultId): the panel shows the "AI agents working" block.
showAgentLoading(a) == agentResult' = [agentResult EXCEPT ![a] = Panel("loading", "")]

\* showAgentError(resultId, message): the panel shows "Error: <message>".
showAgentError(a, message) ==
    agentResult' = [agentResult EXCEPT ![a] = Panel("error", message)]

AgentsUsed == {a \in Agents : agentResult[a].kind # "hidden"}

\* Mutant: the handler forgets btn.disabled = true.
RunAgentSendNoDisable(a) ==
    /\ NoDialog
    /\ a \in AgentsUsed \/ Cardinality(AgentsUsed) < MaxAgentsUsed
    /\ agentInflight[a] < MaxInflight
    /\ showAgentLoading(a)
    /\ agentInflight' = [agentInflight EXCEPT ![a] = @ + 1]
    /\ UNCHANGED <<btnDisabled, searchSide, protocolDom, protocolInflight, alertMsg>>

\* The part of run<Agent>() up to the fetch: the button delivers the click
\* only while enabled, the empty-input early return is the guard.
RunAgentSend(a) ==
    /\ NoDialog
    /\ ~btnDisabled[a]
    /\ a \in AgentsUsed \/ Cardinality(AgentsUsed) < MaxAgentsUsed
    /\ agentInflight[a] < MaxInflight
    /\ btnDisabled' = [btnDisabled EXCEPT ![a] = TRUE]
    /\ showAgentLoading(a)
    /\ agentInflight' = [agentInflight EXCEPT ![a] = @ + 1]
    /\ UNCHANGED <<searchSide, protocolDom, protocolInflight, alertMsg>>

\* Mutant: btn.disabled = false at the end of the try block instead of in a
\* finally block, so an exception leaves the button disabled.
RunAgentResumeNoFinally(a, resp) ==
    /\ NoDialog
    /\ agentInflight[a] > 0
    /\ agentInflight' = [agentInflight EXCEPT ![a] = @ - 1]
    /\ CASE resp.kind = "ok" ->
              agentResult' = [agentResult EXCEPT ![a] = Panel("success", "")]
         [] resp.kind = "error" -> showAgentError(a, resp.text)
         [] resp.kind = "empty" -> showAgentError(a, "Unknown error")
         [] resp.kind = "throw" -> showAgentError(a, resp.text)
    /\ btnDisabled' = [btnDisabled EXCEPT ![a] = (resp.kind = "throw")]
    /\ UNCHANGED <<searchSide, protocolDom, protocolInflight, alertMsg>>

\* The part of run<Agent>() after the await: try / catch / finally.
RunAgentResume(a, resp) ==
    /\ NoDialog
    /\ agentInflight[a] > 0
    /\ agentInflight' = [agentInflight EXCEPT ![a] = @ - 1]
    /\ CASE resp.kind = "ok" ->
              agentResult' = [agentResult EXCEPT ![a] = Panel("success", "")]
         [] resp.kind = "error" -> showAgentError(a, resp.text)
         [] resp.kind = "empty" -> showAgentError(a, "Unknown error")
         [] resp.kind = "throw" -> showAgentError(a, resp.text)
    /\ btnDisabled' = [btnDisabled EXCEPT ![a] = FALSE]
    /\ UNCHANGED <<searchSide, protocolDom, protocolInflight, alertMsg>>

runAgenticSearch == RunAgentSend("agenticSearch")
runAgenticSearchResume == \E resp \in AgentResponses : RunAgentResume("agenticSearch", resp)
runMultiAgentAnalysis == RunAgentSend("analysis")
runMultiAgentAnalysisResume == \E resp \in AgentResponses : RunAgentResume("analysis", resp)
runTrialComparison == RunAgentSend("compare")
runTrialComparisonResume == \E resp \in AgentResponses : RunAgentResume("compare", resp)
runAmendmentRisk == RunAgentSend("amendment")
runAmendmentRiskResume == \E resp \in AgentResponses : RunAgentResume("amendment", resp)
runDesignPatterns == RunAgentSend("pattern")
runDesignPatternsResume == \E resp \in AgentResponses : RunAgentResume("pattern", resp)
runSoAComposer == RunAgentSend("soa")
runSoAComposerResume == \E resp \in AgentResponses : RunAgentResume("soa", resp)

\* --------------------------------------------------------- protocol report
\* generateProtocolReport() up to the fetch.  No control is disabled; the
\* empty-condition early return is the guard.
generateProtocolReport ==
    /\ NoDialog
    /\ protocolInflight < MaxInflight
    /\ protocolLoading' = "block"
    /\ protocolReportContainer' = "none"
    /\ protocolInflight' = protocolInflight + 1
    /\ UNCHANGED <<searchSide, protocolReportContent, agentDom, agentInflight, alertMsg>>

\* generateProtocolReport() after the await.
generateProtocolReportResume ==
    \E resp \in AgentResponses \ {[kind |-> "empty", text |-> ""]} :
        /\ NoDialog
        /\ protocolInflight > 0
        /\ protocolInflight' = protocolInflight - 1
        /\ protocolLoading' = "none"
        /\ CASE resp.kind = "ok" ->
                  /\ protocolReportContent' = "report"
                  /\ protocolReportContainer' = "block"
                  /\ alertMsg' = alertMsg
             [] resp.kind = "error" ->
                  /\ alert(<<"Error: ", resp.text>>)
                  /\ UNCHANGED <<protocolReportContent, protocolReportContainer>>
             [] resp.kind = "throw" ->
                  /\ alert(<<"Error generating report: ", resp.text>>)
                  /\ UNCHANGED <<protocolReportContent, protocolReportContainer>>
        /\ UNCHANGED <<searchSide, agentDom, agentInflight>>

\* ------------------------------------------------------------------ search
\* JavaScript's undefined, as stored by `totalPages = data.total_pages` when the
\* payload has no such field.  displayPagination never runs on such a payload
\* (data.total.toLocaleString() raises first); the one comparison the code makes with the
\* value, totalResults > 50, is false, as it is for this number.
Undefined == -1
\* Threshold of the advanced-mode warning.
WarningThreshold == 50
\* Half-width of the window of numbered page buttons.
PageWindow == 3

Max(a, b) == IF a >= b THEN a ELSE b
Min(a, b) == IF a <= b THEN a ELSE b

\* data.results of a payload: no study, or a page of studies.
ResultLists == {<<>>, <<"NCT001", "NCT002">>}
\* data.total
Totals == {0, WarningThreshold, WarningThreshold + 1}

\* Well-formed success payloads of /api/search.
SearchPayloads ==
    {d \in [total_pages : 0..MaxTotalPages, total : Totals, results : ResultLists,
            searchType : {"semantic", "keyword"}] :
        /\ (d.total = 0) => (d.total_pages = 0 /\ d.results = <<>>)
        /\ (d.total > 0) => d.total_pages >= 1}

\* What arrives for a search request: a success payload, a non-OK status,
\* an OK status with an {error} payload, or an exception.
SearchResponses ==
    {[kind |-> "ok", data |-> d, text |-> ""] : d \in SearchPayloads}
    \cup {[kind |-> "notok", data |-> <<>>, text |-> e] : e \in ServerErrors}
    \cup {[kind |-> "error", data |-> <<>>, text |-> e] : e \in ServerErrors}
    \cup {[kind |-> "throw", data |-> <<>>, text |-> m] : m \in ExceptionMessages}

\* Message of the TypeError raised by data.total.toLocaleString() on a payload
\* without `total`.
TypeErrorMessage == "Cannot read properties of undefined"

RemoveAt(s, i) == [k \in 1..(Len(s) - 1) |-> IF k < i THEN s[k] ELSE s[k + 1]]

\* getFilters(): the values read from the form controls are passed through to
\* the server uninterpreted; of the record the model keeps the page cursor.
getFilters == [isNull |-> FALSE, page |-> currentPage']

EmptyPagination ==
    [rendered |-> FALSE, prevDisabled |-> FALSE, buttons |-> <<>>, nextDisabled |-> FALSE]

\* displayPagination(data), reading the globals currentPage and totalPages.
displayPagination(cp, tp) ==
    IF tp <= 1 THEN EmptyPagination
    ELSE LET startPage == Max(1, cp - PageWindow)
             endPage == Min(tp, cp + PageWindow)
         IN [rendered |-> TRUE,
             prevDisabled |-> (cp = 1),
             buttons |-> [k \in 1..(endPage - startPage + 1) |->
                            [page |-> startPage + k - 1,
                             active |-> (startPage + k - 1 = cp)]],
             nextDisabled |-> (cp = tp)]

\* Mutant: the cards are attributed to the request issued last instead of the
\* request whose response is being handled.
displayResultsOfLastIssued(req, data) ==
    IF Len(data.results) = 0
    THEN [kind |-> "none-found", page |-> currentPage, studies |-> <<>>]
    ELSE [kind |-> "cards", page |-> currentPage, studies |-> data.results]

\* displayResults(data): one card per study of the page asked for, or the
\* "No studies found" paragraph.
displayResults(req, data) ==
    IF Len(data.results) = 0
    THEN [kind |-> "none-found", page |-> req.page, studies |-> <<>>]
    ELSE [kind |-> "cards", page |-> req.page, studies |-> data.results]

ClearedResults == [kind |-> "cleared", page |-> 0, studies |-> <<>>]

\* Everything the search handlers leave alone.
analysisSide == <<protocolDom, agentDom, protocolInflight, agentInflight>>
modalSide == <<currentChatStudy, modalDom, chatInflight>>

\* searchStudies(page) up to the fetch.
searchStudies(page) ==
    /\ NoDialog
    /\ PageInflight < MaxInflight
    /\ page \in (1 - PageSlack)..(MaxTotalPages + PageSlack)
    /\ currentPage' = page
    /\ currentFilters' = getFilters
    /\ searchInflight' = searchInflight (+) SetToBag({currentFilters'})
    /\ UNCHANGED <<totalPages, totalResults, isAdvancedMode, searchDom, sidebarDom,
                   sidebarInflight, modalSide, analysisSide, clock, alertMsg>>

\* The search button: searchStudies() with the default page = 1.
searchBtnClick == searchStudies(1)
\* prevBtn.onclick, deliverable while the rendered button is not disabled.
prevBtnClick ==
    /\ pagination.rendered /\ ~pagination.prevDisabled
    /\ searchStudies(currentPage - 1)
\* btn.onclick of a rendered numbered button.
pageBtnClick ==
    \E k \in 1..Len(pagination.buttons) : searchStudies(pagination.buttons[k].page)
\* nextBtn.onclick
nextBtnClick ==
    /\ pagination.rendered /\ ~pagination.nextDisabled
    /\ searchStudies(currentPage + 1)

\* searchStudies(page) after the await, for the outstanding request req.
SearchResume(req, resp) ==
    /\ NoDialog
    /\ searchInflight' = searchInflight (-) SetToBag({req})
    /\ CASE resp.kind = "ok" ->
              /\ totalPages' = resp.data.total_pages
              /\ totalResults' = resp.data.total
              /\ totalCount' = [n |-> resp.data.total,
                                badge |-> (resp.data.searchType = "semantic")]
              /\ resultsContainer' = displayResults(req, resp.data)
              /\ pagination' = displayPagination(currentPage, totalPages')
              /\ sidebarChatInputDisabled' = FALSE
              /\ sidebarSendBtnDisabled' = FALSE
              /\ advancedWarning' = (isAdvancedMode /\ totalResults' > WarningThreshold)
              /\ alertMsg' = alertMsg
         [] resp.kind = "notok" ->
              /\ alert(<<"Error: ", "Search failed">>)
              /\ UNCHANGED <<totalPages, totalResults, totalCount, resultsContainer,
                             pagination, sidebarChatInputDisabled,
                             sidebarSendBtnDisabled, advancedWarning>>
         [] resp.kind = "error" ->
              /\ totalPages' = Undefined
              /\ totalResults' = Undefined
              /\ alert(<<"Error: ", TypeErrorMessage>>)
              /\ UNCHANGED <<totalCount, resultsContainer, pagination,
                             sidebarChatInputDisabled, sidebarSendBtnDisabled,
                             advancedWarning>>
         [] resp.kind = "throw" ->
              /\ alert(<<"Error: ", resp.text>>)
              /\ UNCHANGED <<totalPages, totalResults, totalCount, resultsContainer,
                             pagination, sidebarChatInputDisabled,
                             sidebarSendBtnDisabled, advancedWarning>>
    /\ UNCHANGED <<currentPage, currentFilters, isAdvancedMode,
                   advancedModeCheckbox, modeBadge, sidebarChatMessages,
                   sidebarInflight, modalSide, analysisSide, clock>>

searchStudiesResume ==
    \E req \in BagToSet(searchInflight) : \E resp \in SearchResponses :
        SearchResume(req, resp)

SidebarPlaceholder == [placeholder |-> TRUE, entries |-> <<>>]

\* Mutant: the reset leaves the sidebar transcript as it is.
clearFiltersKeepTranscript ==
    /\ NoDialog
    /\ advancedModeCheckbox' = FALSE
    /\ currentPage' = 1
    /\ currentFilters' = NullFilters
    /\ resultsContainer' = ClearedResults
    /\ totalCount' = [n |-> 0, badge |-> FALSE]
    /\ sidebarChatInputDisabled' = TRUE
    /\ sidebarSendBtnDisabled' = TRUE
    /\ UNCHANGED <<totalPages, totalResults, isAdvancedMode, pagination,
                   advancedWarning, modeBadge, inflightVars, modalSide,
                   protocolDom, agentDom, clock, alertMsg, sidebarChatMessages>>

\* Mutant: the reset forgets currentPage = 1.
clearFiltersKeepPage ==
    /\ NoDialog
    /\ advancedModeCheckbox' = FALSE
    /\ currentFilters' = NullFilters
    /\ resultsContainer' = ClearedResults
    /\ totalCount' = [n |-> 0, badge |-> FALSE]
    /\ sidebarChatMessages' = SidebarPlaceholder
    /\ sidebarChatInputDisabled' = TRUE
    /\ sidebarSendBtnDisabled' = TRUE
    /\ UNCHANGED <<currentPage, totalPages, totalResults, isAdvancedMode, pagination,
                   advancedWarning, modeBadge, inflightVars, modalSide,
                   protocolDom, agentDom, clock, alertMsg>>

\* clearFilters()
clearFilters ==
    /\ NoDialog
    /\ advancedModeCheckbox' = FALSE
    /\ currentPage' = 1
    /\ currentFilters' = NullFilters
    /\ resultsContainer' = ClearedResults
    /\ totalCount' = [n |-> 0, badge |-> FALSE]
    /\ sidebarChatMessages' = SidebarPlaceholder
    /\ sidebarChatInputDisabled' = TRUE
    /\ sidebarSendBtnDisabled' = TRUE
    /\ UNCHANGED <<totalPages, totalResults, isAdvancedMode, pagination,
                   advancedWarning, modeBadge, inflightVars, modalSide,
                   protocolDom, agentDom, clock, alertMsg>>

\* The user flips the advanced-mode checkbox, whose change event runs
\* toggleAdvancedMode().
toggleAdvancedMode ==
    /\ NoDialog
    /\ advancedModeCheckbox' = ~advancedModeCheckbox
    /\ isAdvancedMode' = advancedModeCheckbox'
    /\ IF isAdvancedMode'
       THEN /\ modeBadge' = "ADVANCED"
            /\ advancedWarning' = IF totalResults > WarningThreshold
                                   THEN TRUE ELSE advancedWarning
       ELSE /\ modeBadge' = "ESSENTIAL"
            /\ advancedWarning' = FALSE
    /\ UNCHANGED <<currentChatStudy, currentPage, totalPages, currentFilters,
                   totalResults, totalCount, resultsContainer, pagination,
                   sidebarDom, modalDom, inflightVars, protocolDom, agentDom,
                   clock, alertMsg>>

\* ------------------------------------------------------------------- chat
Questions == {"Q1"}
\* data.answer and data.info ("" when the payload has no info).
Answers == {"A1"}
Infos == {"", "I1"}

\* What arrives for a request to /api/chat or /api/chat-all.
ChatResponses ==
    {[kind |-> "ok", answer |-> a, info |-> n, text |-> ""] : a \in Answers, n \in Infos}
    \cup {[kind |-> "error", answer |-> "", info |-> "", text |-> e] : e \in ServerErrors}
    \cup {[kind |-> "throw", answer |-> "", info |-> "", text |-> m] :
             m \in ExceptionMessages}

FailedToGetResponse == <<"Error: Failed to get response.">>

Entry(id, type, text) == [id |-> id, type |-> type, text |-> text]

\* document.getElementById(id) within a transcript: the position of the first
\* element in document order that carries the id, 0 for null.
getElementById(entries, id) ==
    LET hits == {k \in 1..Len(entries) : entries[k].id = id}
    IN IF hits = {} THEN 0 ELSE CHOOSE k \in hits : \A j \in hits : k <= j

\* addSidebarMessage(text, type) at Date.now() = now: drops the placeholder,
\* appends the element with id 'sidebar-msg-' + now.
addSidebarMessage(msgs, now, text, type) ==
    [placeholder |-> FALSE, entries |-> Append(msgs.entries, Entry(now, type, text))]

\* addModalMessage(text, type) at Date.now() = now: appends the element with
\* id 'msg-' + now below the header block.
addModalMessage(msgs, now, text, type) ==
    [header |-> msgs.header, entries |-> Append(msgs.entries, Entry(now, type, text))]

\* The text of the assistant entry for a response that was received.
SidebarAnswer(resp) ==
    IF resp.kind = "error" THEN <<"Error: ", resp.text>>
    ELSE IF resp.info # "" THEN <<"Analysis Info:", resp.info, resp.answer>>
    ELSE <<resp.answer>>

\* Mutant: the handler forgets to look at data.error.
ModalAnswerNoErrorCheck(resp) == <<resp.answer>>

ModalAnswer(resp) ==
    IF resp.kind = "error" THEN <<"Error: ", resp.text>> ELSE <<resp.answer>>

\* sendSidebarMessage() up to the fetch.  The click needs the enabled send
\* button; d0 and d1 are the milliseconds that passed before the two
\* Date.now() reads.
sendSidebarMessage ==
    \E question \in Questions, d0 \in 0..1, d1 \in 0..1 :
        LET t1 == clock + d0
            t2 == t1 + d1
            modeText == IF isAdvancedMode THEN "ALL complete study data"
                        ELSE "essential study data"
            withUser == addSidebarMessage(sidebarChatMessages, t1, <<question>>, "user")
        IN
        /\ NoDialog
        /\ ~sidebarSendBtnDisabled /\ ~sidebarChatInputDisabled
        /\ ~currentFilters.isNull
        /\ PageInflight < MaxInflight
        /\ Len(sidebarChatMessages.entries) + Len(chatMessages.entries) + 2 <= MaxMsgs
        /\ t2 <= MaxClock
        /\ sidebarSendBtnDisabled' = TRUE
        /\ sidebarChatInputDisabled' = TRUE
        /\ sidebarChatMessages' =
               addSidebarMessage(withUser, t2, <<"Analyzing ", modeText>>, "loading")
        /\ sidebarInflight' = sidebarInflight (+) SetToBag({[loadingId |-> t2]})
        /\ clock' = t2
        /\ UNCHANGED <<globalVars, searchDom, modalDom, searchInflight, chatInflight,
                       analysisSide, alertMsg>>

\* sendSidebarMessage() after the await: try / catch / finally.  When the
\* loading element is gone, getElementById(...).remove() raises a TypeError in
\* the try block and again in the catch block, and only the finally block runs.
SidebarResume(req, resp, d0) ==
    LET now == clock + d0
        at == getElementById(sidebarChatMessages.entries, req.loadingId)
        removed == [sidebarChatMessages EXCEPT !.entries = RemoveAt(@, at)]
    IN
    /\ NoDialog
    /\ now <= MaxClock
    /\ sidebarInflight' = sidebarInflight (-) SetToBag({req})
    /\ IF at = 0
       THEN UNCHANGED <<sidebarChatMessages, clock>>
       ELSE /\ clock' = now
            /\ sidebarChatMessages' =
                  IF resp.kind = "throw"
                  THEN addSidebarMessage(removed, now, FailedToGetResponse, "assistant")
                  ELSE addSidebarMessage(removed, now, SidebarAnswer(resp), "assistant")
    /\ sidebarSendBtnDisabled' = FALSE
    /\ sidebarChatInputDisabled' = FALSE
    /\ UNCHANGED <<globalVars, searchDom, modalDom, searchInflight, chatInflight,
                   analysisSide, alertMsg>>

sendSidebarMessageResume ==
    \E req \in BagToSet(sidebarInflight) : \E resp \in ChatResponses : \E d0 \in 0..1 :
        SidebarResume(req, resp, d0)

\* Studies whose result card, with its "Ask About This Study" button, is displayed.
DisplayedStudies == {resultsContainer.studies[k] : k \in 1..Len(resultsContainer.studies)}

searchVars == <<currentPage, totalPages, currentFilters, totalResults, isAdvancedMode,
                searchDom, sidebarDom, searchInflight, sidebarInflight>>

\* Mutant: the header block is appended to the transcript instead of
\* replacing it.
openChatModalKeepMessages(nctId) ==
    /\ NoDialog
    /\ nctId \in DisplayedStudies
    /\ currentChatStudy' = nctId
    /\ chatStudyTitle' = <<"Chat about ", nctId>>
    /\ chatModal' = "block"
    /\ chatMessages' = [chatMessages EXCEPT !.header = <<"title of ", nctId>>]
    /\ UNCHANGED <<searchVars, chatInflight, analysisSide, clock, alertMsg>>

\* openChatModal(nctId, title), from the button of a displayed card.
openChatModal(nctId) ==
    /\ NoDialog
    /\ nctId \in DisplayedStudies
    /\ currentChatStudy' = nctId
    /\ chatStudyTitle' = <<"Chat about ", nctId>>
    /\ chatModal' = "block"
    /\ chatMessages' = [header |-> <<"title of ", nctId>>, entries |-> <<>>]
    /\ UNCHANGED <<searchVars, chatInflight, analysisSide, clock, alertMsg>>

openChatModalClick == \E nctId \in DisplayedStudies : openChatModal(nctId)

\* Mutant: closing also empties the transcript.
closeChatModalClearing ==
    /\ NoDialog
    /\ chatModal = "block"
    /\ chatModal' = "none"
    /\ currentChatStudy' = Null
    /\ chatMessages' = [header |-> <<>>, entries |-> <<>>]
    /\ UNCHANGED <<searchVars, chatStudyTitle, chatInflight,
                   analysisSide, clock, alertMsg>>

\* closeChatModal(), from the close control of the open modal.
closeChatModal ==
    /\ NoDialog
    /\ chatModal = "block"
    /\ chatModal' = "none"
    /\ currentChatStudy' = Null
    /\ UNCHANGED <<searchVars, chatStudyTitle, chatMessages, chatInflight,
                   analysisSide, clock, alertMsg>>

\* sendMessage() up to the fetch, from the send control of the open modal.
sendMessage ==
    \E question \in Questions, d0 \in 0..1, d1 \in 0..1 :
        LET t1 == clock + d0
            t2 == t1 + d1
            withUser == addModalMessage(chatMessages, t1, <<question>>, "user")
        IN
        /\ NoDialog
        /\ chatModal = "block"
        /\ currentChatStudy # Null
        /\ PageInflight < MaxInflight
        /\ Len(sidebarChatMessages.entries) + Len(chatMessages.entries) + 2 <= MaxMsgs
        /\ t2 <= MaxClock
        /\ chatMessages' =
               addModalMessage(withUser, t2, <<"Analyzing study data...">>, "loading")
        /\ chatInflight' = chatInflight (+)
               SetToBag({[loadingId |-> t2, nctId |-> currentChatStudy]})
        /\ clock' = t2
        /\ UNCHANGED <<searchVars, currentChatStudy, chatStudyTitle, chatModal,
                       analysisSide, alertMsg>>

\* sendMessage() after the await: try / catch, no finally.  When the loading
\* element is gone the TypeError of getElementById(...).remove() leaves the
\* handler from its catch block and nothing is appended.
ModalResume(req, resp, d0) ==
    LET now == clock + d0
        at == getElementById(chatMessages.entries, req.loadingId)
        removed == [chatMessages EXCEPT !.entries = RemoveAt(@, at)]
    IN
    /\ NoDialog
    /\ now <= MaxClock
    /\ chatInflight' = chatInflight (-) SetToBag({req})
    /\ IF at = 0
       THEN UNCHANGED <<chatMessages, clock>>
       ELSE /\ clock' = now
            /\ chatMessages' =
                  IF resp.kind = "throw"
                  THEN addModalMessage(removed, now, FailedToGetResponse, "assistant")
                  ELSE addModalMessage(removed, now, ModalAnswer(resp), "assistant")
    /\ UNCHANGED <<searchVars, currentChatStudy, chatStudyTitle, chatModal,
                   analysisSide, alertMsg>>

sendMessageResume ==
    \E req \in BagToSet(chatInflight) : \E resp \in ChatResponses : \E d0 \in 0..1 :
        ModalResume(req, resp, d0)

\* ---------------------------------------------------- the server, by scenario
\* The whole page under every server behaviour is too large to enumerate, so
\* each subsystem is explored with the /api/search responses that matter to it.
Failures(R) == {r \in R : r.kind # "ok"}

\* Paging: a server that reports at least one page of studies, or fails.
PagingResponses ==
    {r \in SearchResponses : r.kind \in {"notok", "throw"}} \cup
    {r \in SearchResponses :
        /\ r.kind = "ok"
        /\ r.data.searchType = "keyword"
        /\ r.data.total = WarningThreshold + 1
        /\ r.data.results # <<>>}

\* Advanced mode: every total around the warning threshold, both search types.
ModeResponses ==
    Failures(SearchResponses) \cup
    {r \in SearchResponses :
        /\ r.kind = "ok"
        /\ r.data.total_pages <= 1
        /\ (r.data.total > 0) => r.data.results # <<>>}

\* Chat: one page of studies, or a failed search.
BasicResponses ==
    {r \in SearchResponses : r.kind \in {"notok", "throw"}} \cup
    {r \in SearchResponses :
        /\ r.kind = "ok"
        /\ r.data.searchType = "keyword"
        /\ r.data.total = WarningThreshold + 1
        /\ r.data.total_pages = 1
        /\ r.data.results # <<>>}

SearchResumeFrom(R) ==
    \E req \in BagToSet(searchInflight) : \E resp \in R : SearchResume(req, resp)

searchStudiesResumePaging == SearchResumeFrom(PagingResponses)
searchStudiesResumeMode == SearchResumeFrom(ModeResponses)
searchStudiesResumeBasic == SearchResumeFrom(BasicResponses)

\* ------------------------------------------------------------------- Init
Init ==
    /\ currentChatStudy = Null
    /\ currentPage = 1
    /\ totalPages = 1
    /\ currentFilters = NullFilters
    /\ totalResults = 0
    /\ isAdvancedMode = FALSE
    /\ advancedModeCheckbox = FALSE
    /\ totalCount = [n |-> 0, badge |-> FALSE]
    /\ resultsContainer = ClearedResults
    /\ pagination = EmptyPagination
    /\ advancedWarning = FALSE
    /\ modeBadge = "ESSENTIAL"
    /\ sidebarChatInputDisabled = TRUE
    /\ sidebarSendBtnDisabled = TRUE
    /\ sidebarChatMessages = SidebarPlaceholder
    /\ chatStudyTitle = <<>>
    /\ chatModal = "none"
    /\ chatMessages = [header |-> <<>>, entries |-> <<>>]
    /\ protocolLoading = "none"
    /\ protocolReportContainer = "none"
    /\ protocolReportContent = "empty"
    /\ btnDisabled = [a \in Agents |-> FALSE]
    /\ agentResult = [a \in Agents |-> Panel("hidden", "")]
    /\ searchInflight = EmptyBag
    /\ chatInflight = EmptyBag
    /\ sidebarInflight = EmptyBag
    /\ protocolInflight = 0
    /\ agentInflight = [a \in Agents |-> 0]
    /\ clock = 0
    /\ alertMsg = NoAlert

\* ------------------------------------------------------- specifications
NextAnalysis ==
    \/ runAgenticSearch \/ runAgenticSearchResume
    \/ runMultiAgentAnalysis \/ runMultiAgentAnalysisResume
    \/ runTrialComparison \/ runTrialComparisonResume
    \/ runAmendmentRisk \/ runAmendmentRiskResume
    \/ runDesignPatterns \/ runDesignPatternsResume
    \/ runSoAComposer \/ runSoAComposerResume
    \/ generateProtocolReport \/ generateProtocolReportResume
    \/ dismissAlert

NextSearch ==
    \/ searchBtnClick \/ prevBtnClick \/ pageBtnClick \/ nextBtnClick
    \/ searchStudiesResumePaging
    \/ clearFilters
    \/ dismissAlert

NextMode ==
    \/ searchBtnClick \/ searchStudiesResumeMode
    \/ clearFilters \/ toggleAdvancedMode
    \/ dismissAlert

NextSidebar ==
    \/ searchBtnClick \/ searchStudiesResumeBasic
    \/ clearFilters
    \/ sendSidebarMessage \/ sendSidebarMessageResume
    \/ dismissAlert

NextModal ==
    \/ searchBtnClick \/ searchStudiesResumeBasic
    \/ openChatModalClick \/ closeChatModal
    \/ sendMessage \/ sendMessageResume
    \/ dismissAlert

\* Both chats, without the resets (clearFilters, closeChatModal).
NextChat ==
    \/ searchBtnClick \/ searchStudiesResumeBasic
    \/ openChatModalClick
    \/ sendMessage \/ sendMessageResume
    \/ sendSidebarMessage \/ sendSidebarMessageResume
    \/ dismissAlert

Next ==
    \/ searchBtnClick \/ prevBtnClick \/ pageBtnClick \/ nextBtnClick
    \/ searchStudiesResume
    \/ clearFilters \/ toggleAdvancedMode
    \/ sendSidebarMessage \/ sendSidebarMessageResume
    \/ openChatModalClick \/ closeChatModal
    \/ sendMessage \/ sendMessageResume
    \/ NextAnalysis

SpecAnalysis == Init /\ [][NextAnalysis]_vars
SpecSearch == Init /\ [][NextSearch]_vars
SpecMode == Init /\ [][NextMode]_vars
SpecSidebar == Init /\ [][NextSidebar]_vars
SpecModal == Init /\ [][NextModal]_vars
SpecChat == Init /\ [][NextChat]_vars
Spec == Init /\ [][Next]_vars
\* ------------------------------------------------------------------ claims
Last(seq) == seq[Len(seq)]
Loading(entries) == {k \in 1..Len(entries) : entries[k].type = "loading"}

\* C1: after a successful search response with total_pages = N > 1 the
\* numbered page buttons are exactly the pages max(1, currentPage - 3) ..
\* min(N, currentPage + 3), at most 7 of them, exactly one is marked active
\* and it is the current page; with N = 3 there are exactly 3 buttons; with
\* N <= 1 there is none.
PaginationAsClaimed ==
    LET N == totalPages
        lo == Max(1, currentPage - PageWindow)
        hi == Min(N, currentPage + PageWindow)
        b == pagination.buttons
        active == {k \in 1..Len(b) : b[k].active}
    IN IF N <= 1
       THEN Len(b) = 0
       ELSE /\ Len(b) = Max(0, hi - lo + 1)
            /\ \A k \in 1..Len(b) : b[k].page = lo + k - 1
            /\ Len(b) <= 2 * PageWindow + 1
            /\ Cardinality(active) = 1
            /\ \A k \in active : b[k].page = currentPage
            /\ (N = 3) => (Len(b) = 3)
C1_PaginationWindow ==
    [][\A req \in BagToSet(searchInflight) : \A resp \in SearchResponses :
          (resp.kind = "ok" /\ SearchResume(req, resp)) => PaginationAsClaimed']_vars

\* C2: for every request action, a response that carries an `error` field
\* makes the action's result panel display the server's error text, and the
\* success template is not rendered.
C2_ErrorFieldDisplayed ==
    [][/\ \A req \in BagToSet(searchInflight) : \A resp \in SearchResponses :
            (resp.kind = "error" /\ SearchResume(req, resp)) =>
                /\ alertMsg' = <<"Error: ", resp.text>>
                /\ resultsContainer' = resultsContainer
       /\ \A a \in Agents : \A resp \in AgentResponses :
            (resp.kind = "error" /\ RunAgentResume(a, resp)) =>
                agentResult'[a] = Panel("error", resp.text)
       /\ \A req \in BagToSet(chatInflight) : \A resp \in ChatResponses : \A d0 \in 0..1 :
            (resp.kind = "error" /\ ModalResume(req, resp, d0)) =>
                Last(chatMessages'.entries).text = <<"Error: ", resp.text>>
       /\ \A req \in BagToSet(sidebarInflight) : \A resp \in ChatResponses :
          \A d0 \in 0..1 :
            (resp.kind = "error" /\ SidebarResume(req, resp, d0)) =>
                Last(sidebarChatMessages'.entries).text = <<"Error: ", resp.text>>
      ]_vars

\* C3: clearFilters, run from any state, resets currentPage to 1, discards
\* the stored filter set and leaves the sidebar chat input and send button
\* disabled.
C3_ClearFiltersResets ==
    [][clearFilters =>
          /\ currentPage' = 1
          /\ currentFilters' = NullFilters
          /\ sidebarChatInputDisabled' /\ sidebarSendBtnDisabled']_vars
\* clearFilters has run on a page other than the first, after a search had
\* stored filters and rendered the pagination of several pages.
C3_Witness ==
    /\ currentFilters = NullFilters /\ currentPage = 1
    /\ sidebarChatInputDisabled /\ sidebarSendBtnDisabled
    /\ resultsContainer = ClearedResults
    /\ pagination.rendered /\ ~pagination.buttons[1].active
    /\ BagCardinality(searchInflight) > 0

\* C4: openChatModal(nctId, title), run from any state, makes nctId the
\* current chat study, makes the transcript header reference nctId and leaves
\* no message of an earlier conversation in the modal transcript.
C4_OpenChatModalResets ==
    [][\A nctId \in DisplayedStudies :
          openChatModal(nctId) =>
              /\ currentChatStudy' = nctId
              /\ chatStudyTitle' = <<"Chat about ", nctId>>
              /\ chatMessages'.entries = <<>>]_vars
\* The modal was opened for a study while a question about another study was
\* still unanswered: the earlier conversation's entries are gone.
C4_Witness ==
    /\ currentChatStudy # Null
    /\ chatStudyTitle = <<"Chat about ", currentChatStudy>>
    /\ chatMessages.entries = <<>>
    /\ \E req \in BagToSet(chatInflight) : req.nctId # currentChatStudy

\* What the code does with the trigger control of each request action:
\* search, per-study chat and protocol report never set a control's disabled
\* property.
Outstanding ==
    [a \in Agents |-> agentInflight[a]] @@
    [k \in {"search"} |-> BagCardinality(searchInflight)] @@
    [k \in {"chat"} |-> BagCardinality(chatInflight)] @@
    [k \in {"sidebar"} |-> BagCardinality(sidebarInflight)] @@
    [k \in {"protocol"} |-> protocolInflight]
TriggerDisabled ==
    [a \in Agents |-> btnDisabled[a]] @@
    [k \in {"search", "chat", "protocol"} |-> FALSE] @@
    [k \in {"sidebar"} |-> sidebarSendBtnDisabled /\ sidebarChatInputDisabled]
ActionKinds == Agents \cup {"search", "chat", "sidebar", "protocol"}

C7_PageWithinTotal ==
    1 <= currentPage /\ currentPage <= totalPages

ExpectedFailureText(resp) ==
    IF resp.kind = "throw" THEN FailedToGetResponse ELSE <<"Error: ", resp.text>>
FailureAppended(before, after, req, resp) ==
    IF getElementById(before.entries, req.loadingId) = 0
    THEN after = before
    ELSE /\ Len(after.entries) = Len(before.entries)
         /\ Last(after.entries) =
                Entry(clock', "assistant", ExpectedFailureText(resp))
C9_FailureReturnsToIdle ==
    [][/\ \A req \in BagToSet(chatInflight) : \A resp \in ChatResponses : \A d0 \in 0..1 :
            (resp.kind # "ok" /\ ModalResume(req, resp, d0)) =>
                /\ \A k \in Loading(chatMessages'.entries) :
                       chatMessages'.entries[k].id # req.loadingId
                /\ Len(chatMessages'.entries) > 0
                /\ Last(chatMessages'.entries).type = "assistant"
       /\ \A req \in BagToSet(sidebarInflight) : \A resp \in ChatResponses :
          \A d0 \in 0..1 :
            (resp.kind # "ok" /\ SidebarResume(req, resp, d0)) =>
                /\ \A k \in Loading(sidebarChatMessages'.entries) :
                       sidebarChatMessages'.entries[k].id # req.loadingId
                /\ Len(sidebarChatMessages'.entries) > 0
                /\ Last(sidebarChatMessages'.entries).type = "assistant"
       /\ \A a \in Agents : \A resp \in AgentResponses :
            (resp.kind # "ok" /\ RunAgentResume(a, resp)) =>
                agentResult'[a].kind = "error" /\ ~btnDisabled'[a]
      ]_vars

\* C10: while a request stays unanswered, the trigger control that was
\* disabled for it stays disabled: no other user action and no completion of
\* another request re-enables it.
C10_HungRequestKeepsTriggerDisabled ==
    [][/\ (/\ BagCardinality(sidebarInflight) > 0
           /\ sidebarInflight' = sidebarInflight
           /\ sidebarSendBtnDisabled /\ sidebarChatInputDisabled)
          => (sidebarSendBtnDisabled' /\ sidebarChatInputDisabled')
       /\ \A a \in Agents :
            (agentInflight[a] > 0 /\ agentInflight'[a] = agentInflight[a]
                /\ btnDisabled[a]) => btnDisabled'[a]
      ]_vars

C12_CloseClearsTranscript ==
    [][closeChatModal => chatMessages'.entries = <<>>]_vars
\* C12 (amended): closeChatModal hides the modal and resets currentChatStudy
\* and leaves the transcript as it is; the entries of the closed conversation
\* stay in the hidden transcript until the next openChatModal replaces them.
C12_CloseKeepsTranscript ==
    [][closeChatModal =>
          /\ chatModal' = "none"
          /\ currentChatStudy' = Null
          /\ chatMessages' = chatMessages]_vars
\* The modal is closed and the transcript still holds the closed
\* conversation, answered.
C12_Witness ==
    /\ chatModal = "none"
    /\ currentChatStudy = Null
    /\ Len(chatMessages.entries) = 2
    /\ chatMessages.entries[1].type = "user"
    /\ chatMessages.entries[2].type = "assistant"

\* C13: clearFilters empties the sidebar transcript, and an empty sidebar
\* transcript stays empty until the user sends a new sidebar message: the
\* response to a question asked before the reset adds nothing to it.
C13_ResetTranscriptStaysEmpty ==
    [][/\ clearFilters => sidebarChatMessages' = SidebarPlaceholder
       /\ (sidebarChatMessages.entries = <<>> /\ sidebarChatMessages'.entries # <<>>) =>
            /\ BagCardinality(sidebarInflight') = BagCardinality(sidebarInflight) + 1
            /\ sidebarChatMessages'.entries[1].type = "user"
       /\ \A req \in BagToSet(sidebarInflight) : \A resp \in ChatResponses :
          \A d0 \in 0..1 :
            (sidebarChatMessages.entries = <<>> /\ SidebarResume(req, resp, d0)) =>
                sidebarChatMessages' = sidebarChatMessages]_vars
\* The response to a question asked before the reset has arrived after it:
\* the transcript shows the placeholder only, nothing is outstanding, and the
\* controls were enabled again by the handler's finally block although no
\* search has succeeded since the reset.
C13_Witness ==
    /\ sidebarChatMessages = SidebarPlaceholder
    /\ sidebarInflight = EmptyBag /\ searchInflight = EmptyBag
    /\ currentFilters = NullFilters
    /\ resultsContainer = ClearedResults
    /\ ~sidebarSendBtnDisabled /\ ~sidebarChatInputDisabled

\* The user and assistant entries of a transcript, in document order.
IsMessage(e) == e.type # "loading"
Messages(entries) == SelectSeq(entries, IsMessage)
IsPrefix(a, b) == Len(a) <= Len(b) /\ \A k \in 1..Len(a) : a[k] = b[k]

\* C14: between two clears each chat transcript is append-only for user and
\* assistant entries: a step either empties the transcript or keeps every
\* user and assistant entry, unaltered and in place, below which new ones are
\* appended; also when the user entry and the placeholder carry the same id.
AppendOnly(before, after) ==
    \/ after.entries = <<>>
    \/ IsPrefix(Messages(before.entries), Messages(after.entries))
C14_TranscriptsAppendOnly ==
    [][/\ AppendOnly(chatMessages, chatMessages')
       /\ AppendOnly(sidebarChatMessages, sidebarChatMessages')]_vars

\* C15: in each chat transcript user and assistant entries strictly
\* alternate, starting with a user entry.
Alternates(entries) ==
    LET m == Messages(entries)
    IN \A k \in 1..Len(m) : m[k].type = IF k % 2 = 1 THEN "user" ELSE "assistant"
C15_EntriesAlternate ==
    /\ Alternates(chatMessages.entries)
    /\ Alternates(sidebarChatMessages.entries)

\* C16: in every reachable state, if the sidebar chat input and send button
\* are enabled then a filter set is stored.
C16_SidebarEnabledNeedsFilters ==
    (~sidebarChatInputDisabled /\ ~sidebarSendBtnDisabled) => ~currentFilters.isNull

\* C17: whenever no search request is outstanding, the page whose results
\* are displayed is currentPage, and the pagination button marked active,
\* when pagination is rendered, is that same page.
C17_DisplayedPageIsCurrent ==
    (searchInflight = EmptyBag /\ resultsContainer # ClearedResults) =>
        /\ resultsContainer.page = currentPage
        /\ pagination.rendered =>
              \A k \in 1..Len(pagination.buttons) :
                  pagination.buttons[k].active <=> (pagination.buttons[k].page = currentPage)

\* C18: a search that fails leaves the search state as it was before the
\* search was issued.  While the results container is in its cleared state no
\* search has succeeded since the page was loaded or the filters were last
\* cleared, so with nothing outstanding every search issued since has failed
\* and the state is the one the load or the reset left: no filter set stored,
\* currentPage = 1.
C18_FailedSearchLeavesState ==
    (searchInflight = EmptyBag /\ resultsContainer = ClearedResults) =>
        (currentFilters = NullFilters /\ currentPage = 1)

\* C19: the response to a per-study chat question is added only to the
\* transcript of the study it was asked about: when the transcript is that of
\* another study, handling the response leaves it as it is.
C19_ResponseOnlyToItsStudy ==
    [][\A req \in BagToSet(chatInflight) : \A resp \in ChatResponses : \A d0 \in 0..1 :
          (chatMessages.header # <<"title of ", req.nctId>> /\ ModalResume(req, resp, d0))
              => chatMessages' = chatMessages]_vars

\* C20: in every reachable state isAdvancedMode equals the checked state of
\* the advanced-mode checkbox.
C20_ModeFlagIsCheckbox ==
    isAdvancedMode = advancedModeCheckbox

\* C21: in every reachable state the advanced-mode warning is shown if and
\* only if isAdvancedMode is true and totalResults exceeds 50.
C21_WarningIffAdvancedAndLarge ==
    advancedWarning <=> (isAdvancedMode /\ totalResults > WarningThreshold)
====
